---- MODULE Spec2Model ----
\* LlamaIndexAgent (src/src/any_agent/frameworks/llama_index.py): the adapter's
\* two stored fields, its load and run coroutines cut at their await points,
\* and the model factory. The tool loader, the model and agent constructors and
\* the backend agent's run are external collaborators: each either raises an
\* error or returns a value, chosen nondeterministically.
EXTENDS Integers, Sequences, FiniteSets, TLC

\* ------------------------------------------------------------------ bounds
\* Number of load/run calls made on the adapter in one behaviour.
MaxCalls == 3

CallIds == 1..MaxCalls

\* ------------------------------------------------------- Python values
\* None, strings that may be None, class objects and keyword mappings are kept
\* apart by shape, so that `x or default` can be evaluated as Python does.
None == [none |-> TRUE]
Str(s) == [str |-> s]
Cls(n) == [cls |-> n]
EmptyMap == [k \in {} |-> 0]

\* Python truthiness of the values the `or` defaults are applied to:
\* None, "" and {} are falsy.
Falsy(v) == v = None \/ v = Str("") \/ v = EmptyMap

\* `v or d`
Or(v, d) == IF Falsy(v) THEN d ELSE v

DEFAULT_AGENT_TYPE == Cls("FunctionAgent")
DEFAULT_MODEL_TYPE == Cls("LiteLLM")

\* ---------------------------------------------------------------- errors
ImportErr ==
    [type |-> "ImportError",
     msg |-> "You need to pip install 'any-agent[llama_index]' to use this agent",
     detail |-> None]

NotLoadedErr ==
    [type |-> "ValueError",
     msg |-> "Agent not loaded. Call load_agent() first.",
     detail |-> None]

\* f"Agent did not return a valid response: {result.response}"
InvalidResponseErr(response) ==
    [type |-> "ValueError",
     msg |-> "Agent did not return a valid response: ",
     detail |-> response]

\* DEFAULT_MODEL_TYPE and DEFAULT_AGENT_TYPE are bound only when the guarded
\* import succeeded; reading one otherwise raises NameError.
NameErr(n) == [type |-> "NameError", msg |-> n, detail |-> None]

\* Errors the collaborators (tool loader, constructors, backend run) raise.
CollabErrors ==
    {[type |-> "RuntimeError", msg |-> "collaborator failed", detail |-> None],
     [type |-> "ValueError", msg |-> "bad argument", detail |-> None]}

\* ---------------------------------------------------------------- config
ConfigFields ==
    [name : {"a1", "a2"},
     description : {None, Str(""), Str("desc")},
     instructions : {None, Str("sys")},
     model_id : {"m1", "m2"},
     api_key : {None, Str("key")},
     api_base : {None, Str("base")},
     model_args : {None, EmptyMap, [temperature |-> 1]},
     tools : {<<>>, <<"search">>},
     agent_type : {None, Cls("ReActAgent")},
     model_type : {None, Cls("CustomLLM")},
     agent_args : {None, [timeout |-> 5]}]

\* A config with every optional field unset and one with every field set.
UnsetConfig ==
    [name |-> "a1", description |-> None, instructions |-> None,
     model_id |-> "m1", api_key |-> None, api_base |-> None,
     model_args |-> None, tools |-> <<>>, agent_type |-> None,
     model_type |-> None, agent_args |-> None]

FullConfig ==
    [name |-> "a2", description |-> Str("desc"), instructions |-> Str("sys"),
     model_id |-> "m2", api_key |-> Str("key"), api_base |-> Str("base"),
     model_args |-> [temperature |-> 1], tools |-> <<"search">>,
     agent_type |-> Cls("ReActAgent"), model_type |-> Cls("CustomLLM"),
     agent_args |-> [timeout |-> 5]]

\* A config whose optional string and mapping fields are set but empty.
EmptyConfig ==
    [name |-> "a1", description |-> Str(""), instructions |-> None,
     model_id |-> "m1", api_key |-> None, api_base |-> None,
     model_args |-> EmptyMap, tools |-> <<"search">>, agent_type |-> None,
     model_type |-> None, agent_args |-> None]

LoadConfigs == {UnsetConfig, FullConfig, EmptyConfig}

\* ------------------------------------------------------- backend results
TextBlock(t) == [kind |-> "text", text |-> t]
ImageBlock == [kind |-> "image", url |-> "u"]

\* result.response.blocks as the backend may return it.
BlockSeqs ==
    {<<>>,
     <<TextBlock("hello")>>,
     <<TextBlock("")>>,
     <<ImageBlock>>,
     <<ImageBlock, TextBlock("late")>>,
     <<TextBlock("first"), ImageBlock, TextBlock("late")>>}

Prompts == {"", "hi"}
RunOptions == {EmptyMap, [max_iterations |-> 2]}

VARIABLES
    llama_index_available,  \* module flag set by the guarded import
    config,                 \* self.config
    _agent,                 \* self._agent
    _tools,                 \* self._tools
    calls,                  \* one record per load/run call made
    nStarted,               \* number of calls started
    lastLoad,               \* id of the most recent load that succeeded, 0 if none
    lastResolved,           \* id of the load whose tool resolution finished last, 0 if none
    cfgA, cfgB,             \* two configs handed to the model factory
    handleA, handleB        \* what the factory built from them

vars == <<llama_index_available, config, _agent, _tools, calls, nStarted,
          lastLoad, lastResolved, cfgA, cfgB, handleA, handleB>>

adapter == <<_agent, _tools>>
factory == <<cfgA, cfgB, handleA, handleB>>

\* A call not yet made.
IdleCall ==
    [op |-> "none", pc |-> "idle", prompt |-> "", options |-> EmptyMap,
     raised |-> None, returned |-> None, collabErr |-> None,
     toolLoads |-> 0, modelBuilds |-> 0, agentBuilds |-> 0, backendRuns |-> 0,
     agentUsed |-> None, got |-> <<>>, seenLoad |-> 0, overlaps |-> FALSE]

\* ----------------------------------------------------------------- Init
\* After __init__: no agent. The tool set is whatever the base constructor
\* left; no resolved tool set is stored yet.
Init ==
    /\ llama_index_available \in BOOLEAN
    /\ config \in LoadConfigs
    /\ _agent = None
    /\ _tools = None
    /\ calls = [c \in CallIds |-> IdleCall]
    /\ nStarted = 0
    /\ lastLoad = 0
    /\ lastResolved = 0
    /\ cfgA = config /\ cfgB = config
    /\ handleA = None /\ handleB = None

\* -------------------------------------------------------- model factory
\* Faulty variant of _get_model: the extra arguments fall back to the agent's
\* arguments when the model's are unset.
_get_model_leaky(agent_config) ==
    IF Falsy(agent_config.model_type) /\ ~llama_index_available
    THEN NameErr("DEFAULT_MODEL_TYPE")
    ELSE [cls |-> Or(agent_config.model_type, DEFAULT_MODEL_TYPE),
          model |-> agent_config.model_id,
          api_key |-> agent_config.api_key,
          api_base |-> agent_config.api_base,
          additional_kwargs |->
              Or(agent_config.model_args, Or(agent_config.agent_args, EmptyMap))]

\* _get_model: the constructor call model_type(model=..., api_key=...,
\* api_base=..., additional_kwargs=...).
_get_model(agent_config) ==
    IF Falsy(agent_config.model_type) /\ ~llama_index_available
    THEN NameErr("DEFAULT_MODEL_TYPE")
    ELSE LET model_type == Or(agent_config.model_type, DEFAULT_MODEL_TYPE)
         IN [cls |-> model_type,
             model |-> agent_config.model_id,
             api_key |-> agent_config.api_key,
             api_base |-> agent_config.api_base,
             additional_kwargs |-> Or(agent_config.model_args, EmptyMap)]

\* ------------------------------------------------------------------ load
\* Faulty variant of BackendMissing: the availability check is dropped.
BackendMissing_unchecked == FALSE

\* `if not llama_index_available`
BackendMissing == ~llama_index_available

\* The value of `await self._load_tools(self.config.tools)`: a fresh resolved
\* tool set per call (the auxiliary result is dropped).
ResolvedTools(c) == [by |-> c, specs |-> config.tools]

\* The constructor call agent_type(name=..., tools=..., description=...,
\* llm=..., system_prompt=..., **agent_args).
BuildAgent(c, imported_tools) ==
    [by |-> c,
     cls |-> Or(config.agent_type, DEFAULT_AGENT_TYPE),
     name |-> config.name,
     tools |-> imported_tools,
     description |-> Or(config.description, Str("The main agent")),
     llm |-> _get_model(config),
     system_prompt |-> config.instructions,
     extra |-> Or(config.agent_args, EmptyMap)]

\* A call begins: the next unused call id.
Begins(c) == c = nStarted + 1 /\ calls[c].pc = "idle"

\* _load_agent up to its await: the availability check, then the tool loader
\* is invoked and the coroutine suspends.
LoadStart(c) ==
    /\ Begins(c)
    /\ nStarted' = c
    /\ IF BackendMissing
       THEN calls' = [calls EXCEPT ![c] =
                [@ EXCEPT !.op = "load", !.pc = "done", !.raised = ImportErr,
                          !.seenLoad = lastLoad]]
       ELSE calls' = [calls EXCEPT ![c] =
                [@ EXCEPT !.op = "load", !.pc = "await_tools",
                          !.toolLoads = @ + 1, !.seenLoad = lastLoad,
                          !.overlaps = \E d \in CallIds :
                              calls[d].op = "load" /\ calls[d].pc = "await_tools"]]
    /\ UNCHANGED <<llama_index_available, config, adapter, lastLoad,
                   lastResolved, factory>>

\* Faulty variant of LoadToolsRaise: the stored agent is cleared when tool
\* resolution fails.
LoadToolsRaise_clears(c) ==
    /\ calls[c].op = "load" /\ calls[c].pc = "await_tools"
    /\ _agent' = None
    /\ \E e \in CollabErrors :
          calls' = [calls EXCEPT ![c] =
              [@ EXCEPT !.pc = "done", !.raised = e, !.collabErr = e]]
    /\ UNCHANGED <<llama_index_available, config, _tools, nStarted, lastLoad,
                   lastResolved, factory>>

\* The tool loader raises: the await re-raises in _load_agent.
LoadToolsRaise(c) ==
    /\ calls[c].op = "load" /\ calls[c].pc = "await_tools"
    /\ \E e \in CollabErrors :
          calls' = [calls EXCEPT ![c] =
              [@ EXCEPT !.pc = "done", !.raised = e, !.collabErr = e]]
    /\ UNCHANGED <<llama_index_available, config, adapter, nStarted, lastLoad,
                   lastResolved, factory>>

\* The tool loader returns; self._tools is assigned; the model constructor
\* raises while the arguments of agent_type(...) are evaluated.
LoadModelRaises(c) ==
    /\ calls[c].op = "load" /\ calls[c].pc = "await_tools"
    /\ _tools' = ResolvedTools(c)
    /\ lastResolved' = c
    /\ \E e \in CollabErrors :
          calls' = [calls EXCEPT ![c] =
              [@ EXCEPT !.pc = "done", !.raised = e, !.collabErr = e,
                        !.modelBuilds = @ + 1]]
    /\ UNCHANGED <<llama_index_available, config, _agent, nStarted, lastLoad,
                   factory>>

\* As above, but the model is built and the agent constructor raises.
LoadAgentRaises(c) ==
    /\ calls[c].op = "load" /\ calls[c].pc = "await_tools"
    /\ _tools' = ResolvedTools(c)
    /\ lastResolved' = c
    /\ \E e \in CollabErrors :
          calls' = [calls EXCEPT ![c] =
              [@ EXCEPT !.pc = "done", !.raised = e, !.collabErr = e,
                        !.modelBuilds = @ + 1, !.agentBuilds = @ + 1]]
    /\ UNCHANGED <<llama_index_available, config, _agent, nStarted, lastLoad,
                   factory>>

\* The tool loader returns and both constructors succeed: self._tools and
\* self._agent are assigned with no await in between.
LoadFinish(c) ==
    /\ calls[c].op = "load" /\ calls[c].pc = "await_tools"
    /\ _tools' = ResolvedTools(c)
    /\ _agent' = BuildAgent(c, ResolvedTools(c))
    /\ lastResolved' = c
    /\ lastLoad' = c
    /\ calls' = [calls EXCEPT ![c] =
            [@ EXCEPT !.pc = "done", !.modelBuilds = @ + 1,
                      !.agentBuilds = @ + 1]]
    /\ UNCHANGED <<llama_index_available, config, nStarted, factory>>

\* ------------------------------------------------------------------- run
\* Faulty variant of AgentMissing: the stored tool set is tested instead of
\* the stored agent.
AgentMissing_tools(a) == _tools = None

\* `if not self._agent`
AgentMissing(a) == a = None

\* _run_async up to its await: the loaded check, then the stored agent's run
\* is invoked with the prompt and the run options and the coroutine suspends.
RunStart(c) ==
    /\ Begins(c)
    /\ nStarted' = c
    /\ \E p \in Prompts, o \in RunOptions :
          IF AgentMissing(_agent)
          THEN calls' = [calls EXCEPT ![c] =
                   [@ EXCEPT !.op = "run", !.pc = "done", !.prompt = p,
                             !.options = o, !.raised = NotLoadedErr,
                             !.seenLoad = lastLoad]]
          ELSE calls' = [calls EXCEPT ![c] =
                   [@ EXCEPT !.op = "run", !.pc = "await_run", !.prompt = p,
                             !.options = o, !.backendRuns = @ + 1,
                             !.agentUsed = _agent, !.seenLoad = lastLoad]]
    /\ UNCHANGED <<llama_index_available, config, adapter, lastLoad,
                   lastResolved, factory>>

\* Faulty variant of RunBackendRaises: the backend's error is wrapped.
RunBackendRaises_wraps(c) ==
    /\ calls[c].op = "run" /\ calls[c].pc = "await_run"
    /\ \E e \in CollabErrors :
          calls' = [calls EXCEPT ![c] =
              [@ EXCEPT !.pc = "done", !.collabErr = e,
                        !.raised = [type |-> "RuntimeError",
                                    msg |-> "agent run failed", detail |-> e]]]
    /\ UNCHANGED <<llama_index_available, config, adapter, nStarted, lastLoad,
                   lastResolved, factory>>

\* Faulty variant of RunBackendRaises: the stored agent is dropped when its
\* run fails.
RunBackendRaises_drops(c) ==
    /\ calls[c].op = "run" /\ calls[c].pc = "await_run"
    /\ _agent' = None
    /\ \E e \in CollabErrors :
          calls' = [calls EXCEPT ![c] =
              [@ EXCEPT !.pc = "done", !.raised = e, !.collabErr = e]]
    /\ UNCHANGED <<llama_index_available, config, _tools, nStarted, lastLoad,
                   lastResolved, factory>>

\* The backend's run raises: the await re-raises in _run_async.
RunBackendRaises(c) ==
    /\ calls[c].op = "run" /\ calls[c].pc = "await_run"
    /\ \E e \in CollabErrors :
          calls' = [calls EXCEPT ![c] =
              [@ EXCEPT !.pc = "done", !.raised = e, !.collabErr = e]]
    /\ UNCHANGED <<llama_index_available, config, adapter, nStarted, lastLoad,
                   lastResolved, factory>>

\* hasattr(block, "text")
HasText(block) == "text" \in DOMAIN block

\* `not result.response.blocks or not hasattr(result.response.blocks[0], "text")`
InvalidShape(blocks) == Len(blocks) = 0 \/ ~HasText(blocks[1])

\* Faulty variant of ExtractText: the last block's text is taken.
ExtractText_last(blocks) == blocks[Len(blocks)].text

\* `result.response.blocks[0].text`
ExtractText(blocks) == blocks[1].text

\* Faulty variant of RunResume: a result with no text in its first block
\* yields the empty string instead of an error.
RunResume_lenient(c) ==
    /\ calls[c].op = "run" /\ calls[c].pc = "await_run"
    /\ \E blocks \in BlockSeqs :
          calls' = [calls EXCEPT ![c] =
              [@ EXCEPT !.pc = "done", !.got = <<blocks>>,
                        !.returned = IF InvalidShape(blocks) THEN Str("")
                                     ELSE Str(ExtractText(blocks))]]
    /\ UNCHANGED <<llama_index_available, config, adapter, nStarted, lastLoad,
                   lastResolved, factory>>

\* The backend's run returns a result: the shape check, then the first
\* block's text is returned.
RunResume(c) ==
    /\ calls[c].op = "run" /\ calls[c].pc = "await_run"
    /\ \E blocks \in BlockSeqs :
          IF InvalidShape(blocks)
          THEN calls' = [calls EXCEPT ![c] =
                   [@ EXCEPT !.pc = "done", !.got = <<blocks>>,
                             !.raised = InvalidResponseErr(blocks)]]
          ELSE calls' = [calls EXCEPT ![c] =
                   [@ EXCEPT !.pc = "done", !.got = <<blocks>>,
                             !.returned = Str(ExtractText(blocks))]]
    /\ UNCHANGED <<llama_index_available, config, adapter, nStarted, lastLoad,
                   lastResolved, factory>>

Next ==
    \E c \in CallIds :
        \/ LoadStart(c)
        \/ LoadToolsRaise(c)
        \/ LoadModelRaises(c)
        \/ LoadAgentRaises(c)
        \/ LoadFinish(c)
        \/ RunStart(c)
        \/ RunBackendRaises(c)
        \/ RunResume(c)

Spec == Init /\ [][Next]_vars

\* --------------------------------------- the model factory on its own
\* Unrelated fields of a config, varied together.
Unrelated ==
    {[name |-> "a1", description |-> None, instructions |-> None,
      tools |-> <<>>, agent_type |-> None, agent_args |-> None],
     [name |-> "a2", description |-> Str("desc"), instructions |-> Str("sys"),
      tools |-> <<"search">>, agent_type |-> Cls("ReActAgent"),
      agent_args |-> [timeout |-> 5]],
     [name |-> "a1", description |-> Str(""), instructions |-> Str("sys"),
      tools |-> <<"search">>, agent_type |-> None,
      agent_args |-> [timeout |-> 5]]}

FactoryConfigs ==
    {cfg \in ConfigFields :
        \E u \in Unrelated : \A f \in DOMAIN u : cfg[f] = u[f]}

InitFactory ==
    /\ llama_index_available \in BOOLEAN
    /\ config = UnsetConfig
    /\ _agent = None
    /\ _tools = None
    /\ calls = [c \in CallIds |-> IdleCall]
    /\ nStarted = 0
    /\ lastLoad = 0
    /\ lastResolved = 0
    /\ cfgA \in FactoryConfigs /\ cfgB \in FactoryConfigs
    /\ handleA = None /\ handleB = None

\* self._get_model(cfgA): no field of the adapter is assigned.
GetModelA ==
    /\ handleA = None
    /\ handleA' = _get_model(cfgA)
    /\ UNCHANGED <<llama_index_available, config, adapter, calls, nStarted,
                   lastLoad, lastResolved, cfgA, cfgB, handleB>>

GetModelB ==
    /\ handleB = None
    /\ handleB' = _get_model(cfgB)
    /\ UNCHANGED <<llama_index_available, config, adapter, calls, nStarted,
                   lastLoad, lastResolved, cfgA, cfgB, handleA>>

NextFactory == GetModelA \/ GetModelB

SpecFactory == InitFactory /\ [][NextFactory]_vars

\* ================================================================ claims
Loads == {c \in CallIds : calls[c].op = "load"}
Runs == {c \in CallIds : calls[c].op = "run"}
Finished(c) == calls[c].pc = "done"
Failed(c) == Finished(c) /\ calls[c].raised # None

\* C1: a run call made while no load has succeeded yet (earlier loads may have
\* failed) fails with the NotLoaded error and its message, whatever the prompt,
\* and the backend agent's run is not invoked.
C1_RunBeforeLoadFails ==
    \A c \in Runs :
        calls[c].seenLoad = 0 =>
            /\ Finished(c)
            /\ calls[c].raised.type = "ValueError"
            /\ calls[c].raised.msg = "Agent not loaded. Call load_agent() first."
            /\ calls[c].returned = None
            /\ calls[c].backendRuns = 0
            /\ calls[c].agentUsed = None

\* A load failed in model construction, after which a run with the empty
\* prompt failed with NotLoaded.
C1_Witness ==
    \E d \in Loads, c \in Runs :
        /\ d < c
        /\ Failed(d) /\ calls[d].modelBuilds = 1
        /\ calls[c].prompt = ""
        /\ calls[c].seenLoad = 0
        /\ calls[c].raised = NotLoadedErr

\* C2: with the backend unavailable every load fails with the ImportError, for
\* every config, before the tool loader is invoked and before any model or
\* agent is constructed.
C2_UnavailableLoadFails ==
    ~llama_index_available =>
        \A c \in Loads :
            /\ Finished(c)
            /\ calls[c].raised.type = "ImportError"
            /\ calls[c].toolLoads = 0
            /\ calls[c].modelBuilds = 0
            /\ calls[c].agentBuilds = 0

\* The backend is unavailable and two loads have failed.
C2_Witness ==
    /\ ~llama_index_available
    /\ \E c, d \in Loads : c # d /\ Failed(c) /\ Failed(d)
    /\ config = FullConfig

\* C3: when the backend returns a non-empty block sequence whose first block
\* has a text, run returns exactly that text, whatever the later blocks, the
\* prompt and the run options.
C3_ReturnsFirstText ==
    \A c \in Runs :
        (/\ calls[c].got # <<>>
         /\ Len(calls[c].got[1]) > 0
         /\ "text" \in DOMAIN calls[c].got[1][1]) =>
            /\ Finished(c)
            /\ calls[c].raised = None
            /\ calls[c].returned = Str(calls[c].got[1][1].text)

\* A run with run options got three blocks and returned the first one's text;
\* another got the empty text and returned it.
C3_Witness ==
    \E c, d \in Runs :
        /\ calls[c].got = <<(<<TextBlock("first"), ImageBlock, TextBlock("late")>>)>>
        /\ calls[c].returned = Str("first")
        /\ calls[c].options # EmptyMap
        /\ calls[d].got = <<(<<TextBlock("")>>)>>
        /\ calls[d].returned = Str("")

\* C4: when the backend returns an empty block sequence, or one whose first
\* block has no text (even if a later block has one), run fails with the
\* invalid-response ValueError and returns no string.
C4_InvalidShapeFails ==
    \A c \in Runs :
        (/\ calls[c].got # <<>>
         /\ \/ Len(calls[c].got[1]) = 0
            \/ "text" \notin DOMAIN calls[c].got[1][1]) =>
            /\ Finished(c)
            /\ calls[c].returned = None
            /\ calls[c].raised.type = "ValueError"
            /\ calls[c].raised.msg = "Agent did not return a valid response: "
            /\ calls[c].raised.detail = calls[c].got[1]

\* One run got no blocks and another got an image block followed by a text
\* block; both failed.
C4_Witness ==
    \E c, d \in Runs :
        /\ calls[c].got = <<(<<>>)>> /\ Failed(c)
        /\ calls[d].got = <<(<<ImageBlock, TextBlock("late")>>)>> /\ Failed(d)

\* C5: an error raised by the tool loader, by model or agent construction or
\* by the backend's run is the error the call fails with, unchanged; a load
\* invokes the tool loader at most once and a run the backend at most once.
C5_ErrorsPropagate ==
    \A c \in CallIds :
        /\ calls[c].collabErr # None =>
              /\ Finished(c)
              /\ calls[c].raised = calls[c].collabErr
              /\ calls[c].returned = None
        /\ calls[c].toolLoads <= 1
        /\ calls[c].modelBuilds <= 1
        /\ calls[c].agentBuilds <= 1
        /\ calls[c].backendRuns <= 1
        /\ (Finished(c) /\ calls[c].raised = None /\ calls[c].op = "load") =>
              calls[c].toolLoads = 1

\* A load failed in tool resolution and a run failed in the backend, each with
\* the collaborator's error.
C5_Witness ==
    \E d \in Loads, c \in Runs :
        /\ calls[d].collabErr \in CollabErrors
        /\ calls[d].modelBuilds = 0
        /\ calls[d].raised = calls[d].collabErr
        /\ calls[c].collabErr \in CollabErrors
        /\ calls[c].raised = calls[c].collabErr

\* The fields of a config the model factory reads.
Agree(a, b) ==
    /\ a.model_type = b.model_type
    /\ a.model_id = b.model_id
    /\ a.api_key = b.api_key
    /\ a.api_base = b.api_base
    /\ a.model_args = b.model_args

Built(h) == h # None /\ "cls" \in DOMAIN h

\* C6: two configs that agree on model type, model id, key, base and extra
\* arguments give the model constructor the same arguments, however their
\* other fields differ; the arguments are the config's fields, an unset
\* extra-arguments field becoming the empty mapping; the adapter's fields are
\* left as they were.
C6_FactoryIsPure ==
    /\ (handleA # None /\ handleB # None /\ Agree(cfgA, cfgB)) => handleA = handleB
    /\ Built(handleA) =>
          /\ handleA.cls = IF cfgA.model_type = None THEN Cls("LiteLLM")
                           ELSE cfgA.model_type
          /\ handleA.model = cfgA.model_id
          /\ handleA.api_key = cfgA.api_key
          /\ handleA.api_base = cfgA.api_base
          /\ handleA.additional_kwargs =
                IF cfgA.model_args = None THEN EmptyMap ELSE cfgA.model_args
    /\ _agent = None /\ _tools = None

\* Two configs that differ in every unrelated field and agree on the model's,
\* with the extra arguments unset, have both been through the factory.
C6_Witness ==
    /\ Built(handleA) /\ Built(handleB)
    /\ Agree(cfgA, cfgB)
    /\ cfgA.model_args = None
    /\ cfgA.name # cfgB.name /\ cfgA.tools # cfgB.tools
    /\ cfgA.agent_args # cfgB.agent_args /\ cfgA.agent_type # cfgB.agent_type

\* A step in which load c resumes after its tool resolution has returned.
LoadResumes(c) ==
    /\ calls[c].op = "load" /\ calls[c].pc = "await_tools"
    /\ calls'[c].pc = "done"
    /\ calls'[c].modelBuilds = 1

\* C7 as stated: the agent reference is the adapter's only mutable state, once
\* written it is only read, and no other field is modified by load or run.
C7_Original ==
    [][/\ _agent # None => _agent' = _agent
       /\ _tools' = _tools
       /\ config' = config]_vars

\* C7 amended: the adapter's mutable state is the agent reference and the
\* stored tool set. Both are written only by a load resuming after its tool
\* resolution returned: the tool set by every such load, the agent reference by
\* those that succeed, with the tool set it was built with. No run step writes
\* either, and the config is never modified.
C7_OnlyLoadWrites ==
    [][/\ config' = config
       /\ adapter' # adapter => \E c \in CallIds : LoadResumes(c) /\ _tools'.by = c
       /\ _agent' # _agent =>
             \E c \in CallIds :
                 /\ LoadResumes(c)
                 /\ calls'[c].raised = None
                 /\ _agent'.by = c
                 /\ _agent'.tools = _tools']_vars

\* A second successful load has replaced the agent of a first one, and a run
\* has returned a text.
C7_Witness ==
    /\ \E c, d \in Loads :
          /\ c < d
          /\ Finished(c) /\ calls[c].raised = None
          /\ lastLoad = d /\ _agent.by = d
    /\ \E r \in Runs : calls[r].returned # None

\* The stored tool set is the one the stored agent was constructed with.
ToolsMatchAgent == _agent # None => _agent.tools = _tools

\* C8: a load that fails at any step leaves the stored agent reference and the
\* stored tool set as they were, so the stored tool set is always the one the
\* stored agent was constructed with.
C8_FailedLoadChangesNothing ==
    [][/\ \A c \in CallIds :
             (/\ calls'[c].op = "load"
              /\ calls[c].pc # "done"
              /\ calls'[c].pc = "done"
              /\ calls'[c].raised # None) => adapter' = adapter
       /\ ToolsMatchAgent']_vars

\* C9: once a load has succeeded the adapter holds an agent, that of the most
\* recent successful load, whatever runs, failed loads and further loads
\* follow; a run begun after a successful load never fails with NotLoaded and
\* invokes the run of the agent of the most recent successful load.
C9_LoadedIsTerminal ==
    /\ lastLoad # 0 => (_agent # None /\ _agent.by = lastLoad)
    /\ \A c \in Runs :
          calls[c].seenLoad # 0 =>
              /\ calls[c].raised # NotLoadedErr
              /\ calls[c].backendRuns = 1
              /\ calls[c].agentUsed # None
              /\ calls[c].agentUsed.by = calls[c].seenLoad

\* A load succeeded, a later load failed in tool resolution, and a run begun
\* after both returned a text from the first load's agent.
C9_Witness ==
    \E l \in Loads, f \in Loads, r \in Runs :
        /\ l < f /\ f < r
        /\ lastLoad = l
        /\ Failed(f) /\ calls[f].modelBuilds = 0
        /\ calls[r].returned # None
        /\ calls[r].agentUsed.by = l

\* Two loads were suspended in tool resolution at the same time.
LoadsOverlapped == \E c \in Loads : calls[c].overlaps

\* C10: under any interleaving a run either fails with NotLoaded (no earlier
\* successful load) or uses the agent of an earlier completed load; and when
\* two loads overlap the stored agent and the stored tool set both come from
\* the load whose tool resolution finished last.
C10_NoPartialLoad ==
    /\ \A c \in Runs :
          \/ /\ calls[c].seenLoad = 0
             /\ calls[c].raised = NotLoadedErr
             /\ calls[c].agentUsed = None
          \/ /\ calls[c].agentUsed # None
             /\ calls[c].agentUsed.by \in Loads
             /\ calls[c].agentUsed.by < c
             /\ Finished(calls[c].agentUsed.by)
             /\ calls[calls[c].agentUsed.by].raised = None
    /\ (LoadsOverlapped /\ _agent # None /\ \A c \in Loads : Finished(c)) =>
          /\ _tools.by = lastResolved
          /\ _agent.by = _tools.by
          /\ _agent.tools = _tools

====
